---- MODULE Spec2Model ----
(***************************************************************************)
(* Model of the account router (createAccount, fundAccount,                *)
(* getTransactions) over the accounts and transactions tables.             *)
(*                                                                         *)
(* Every "await db...." of a handler is one atomic step on the shared      *)
(* store; requests of different callers interleave between those steps.    *)
(* Amounts and balances are counted in hundredths (100.50 is 10050).       *)
(***************************************************************************)
EXTENDS Integers, Sequences, FiniteSets, TLC

(* ------------------------------ bounds --------------------------------- *)
MaxAccounts == 2
MaxTx == 2
MaxHashLen == 11
MaxTime == 7
MaxSessions == 3
MaxCardTail == 5
MaxPrefixLen == 4
MaxAmountLen == 6

(* ------------------------------ inputs --------------------------------- *)
Procs == {"p1", "p2"}
Users == {"u1", "u2"}
AccountTypes == {"checking", "savings"}
Amounts == {2575, 10050}
AccountNumbers == 1 .. MaxAccounts
AccountIds == 1 .. MaxAccounts

VARIABLES accounts, transactions, clock, pc, ctx, account, accountNumber,
          transaction, hist, result, funded, sessions, issued, input, output

vars == <<accounts, transactions, clock, pc, ctx, account, accountNumber,
          transaction, hist, result, funded, sessions, issued, input, output>>

store == <<accounts, transactions, clock>>

\* the session table with its token counter, and the argument and value of a
\* pure function: state the account router never touches
elsewhere == <<sessions, issued, input, output>>

(* ------------------------------ records -------------------------------- *)
NoAccount ==
    [id |-> 0, userId |-> "none", accountNumber |-> 0, accountType |-> "none",
     balance |-> 0, status |-> "none"]

NoTransaction ==
    [id |-> 0, accountId |-> 0, type |-> "none", amount |-> 0,
     status |-> "none", createdAt |-> 0]

\* fundingSource of a fundAccount input (given: routingNumber is present;
\* form: the input was sent by the funding form)
NoSource ==
    [type |-> "none", accountNumber |-> <<>>, given |-> FALSE,
     routingNumber |-> <<>>, form |-> FALSE]

NoCtx ==
    [op |-> "none", user |-> "none", accountId |-> 0, amount |-> 0,
     accountType |-> "none", token |-> 0, source |-> NoSource]

NoResult ==
    [code |-> "NONE", message |-> "", account |-> NoAccount,
     transaction |-> NoTransaction, newBalance |-> 0, list |-> <<>>]

\* history of a request, kept for the statement of properties only: the ids of
\* the rows it inserted, the stored balance of its target account before it
\* (and before the request it overlaps) began, the request that was in flight
\* on the same account when it began, and the number of lookups it issued
\* (and the persistence call of it that failed, if one did; whether its
\* number loop went round again)
NoHist ==
    [mine |-> {}, before |-> 0, joined |-> "none", lookups |-> 0,
     fault |-> "none", retried |-> FALSE]

Failure(code, message) ==
    [NoResult EXCEPT !.code = code, !.message = message]

Range(s) == {s[i] : i \in DOMAIN s}

(* --------------------------- persistence ------------------------------- *)
\* balance: 0 of the inserted account row
InitialBalance == 0

NewAccountFallback(id, user, number, type) ==
    [id |-> id, userId |-> user, accountNumber |-> number, accountType |-> type,
     balance |-> 10000, status |-> "pending"]

NewAccount(id, user, number, type) ==
    [id |-> id, userId |-> user, accountNumber |-> number, accountType |-> type,
     balance |-> InitialBalance, status |-> "active"]

\* where(and(eq(accounts.userId, user), eq(accounts.accountType, type)))
AccountsOfType(user, type) ==
    {a \in Range(accounts) : a.userId = user /\ a.accountType = type}

\* where(eq(accounts.accountNumber, number))
AccountsWithNumber(number) ==
    {a \in Range(accounts) : a.accountNumber = number}

NumberIsFreeUnchecked(number) == TRUE

\* the uniqueness the store enforces on accounts.accountNumber at insert
NumberIsFree(number) ==
    \A i \in DOMAIN accounts : accounts[i].accountNumber # number

FindAccountById(id, user) ==
    IF \E a \in Range(accounts) : a.id = id
    THEN CHOOSE a \in Range(accounts) : a.id = id
    ELSE NoAccount

\* where(and(eq(accounts.id, id), eq(accounts.userId, user))).get()
FindOwnedAccount(id, user) ==
    IF \E a \in Range(accounts) : a.id = id /\ a.userId = user
    THEN CHOOSE a \in Range(accounts) : a.id = id /\ a.userId = user
    ELSE NoAccount

\* the creation timestamp the store gives a new row: the current time, which
\* has or has not advanced since the previous insert (time is counted from the
\* first insert)
CreatedAtDefault ==
    IF transactions = <<>> THEN {clock} ELSE {clock, clock + 1}

NewTransactionPending(id, accountId, amount, createdAt) ==
    [id |-> id, accountId |-> accountId, type |-> "deposit", amount |-> amount,
     status |-> "pending", createdAt |-> createdAt]

NewTransaction(id, accountId, amount, createdAt) ==
    [id |-> id, accountId |-> accountId, type |-> "deposit", amount |-> amount,
     status |-> "completed", createdAt |-> createdAt]

TransactionsOfAnyAccount(accountId) == Range(transactions)

\* where(eq(transactions.accountId, accountId))
TransactionsOf(accountId) ==
    {t \in Range(transactions) : t.accountId = accountId}

CreatedAtAsc(t, u) == t.createdAt <= u.createdAt

\* desc(transactions.createdAt)
CreatedAtDesc(t, u) == t.createdAt >= u.createdAt

\* orderBy(desc(transactions.createdAt)): every listing of the rows that the
\* ordering allows; rows with equal createdAt come in any relative order
OrderByCreatedAt(rows) ==
    {s \in [1 .. Cardinality(rows) -> rows] :
        /\ \A i, j \in DOMAIN s : i # j => s[i] # s[j]
        /\ \A i \in DOMAIN s : i > 1 => CreatedAtDesc(s[i - 1], s[i])}

NewBalanceDrift(balance, amount) == balance + amount + 1

\* balance: account.balance + amount
NewBalance(balance, amount) == balance + amount

UpdateBalanceEveryRow(accountId, balance) ==
    [i \in DOMAIN accounts |-> [accounts[i] EXCEPT !.balance = balance]]

\* .set({ balance }).where(eq(accounts.id, accountId))
UpdateBalance(accountId, balance) ==
    [i \in DOMAIN accounts |->
        IF accounts[i].id = accountId
        THEN [accounts[i] EXCEPT !.balance = balance]
        ELSE accounts[i]]

EnrichLookupsPerRow(rows) == Len(rows)

\* the lookups the enrichment of the fetched rows issues: none, the account
\* record fetched for the ownership check is reused
EnrichLookups(rows) == 0

\* { ...transaction, accountType: account.accountType }
Enrich(t, acct) ==
    [id |-> t.id, accountId |-> t.accountId, type |-> t.type,
     amount |-> t.amount, status |-> t.status, createdAt |-> t.createdAt,
     accountType |-> acct.accountType]

(* ------------------------------ state ---------------------------------- *)
NothingElsewhere ==
    sessions = {} /\ issued = 0 /\ input = <<>> /\ output = <<>>

Init ==
    /\ accounts = <<>>
    /\ transactions = <<>>
    /\ clock = 0
    /\ pc = [p \in Procs |-> "idle"]
    /\ ctx = [p \in Procs |-> NoCtx]
    /\ account = [p \in Procs |-> NoAccount]
    /\ accountNumber = [p \in Procs |-> 0]
    /\ transaction = [p \in Procs |-> NoTransaction]
    /\ hist = [p \in Procs |-> NoHist]
    /\ result = [p \in Procs |-> NoResult]
    /\ funded = [a \in AccountIds |-> 0]
    /\ NothingElsewhere

Creating == {p \in Procs : pc[p] \in {"c_check", "c_gen", "c_insert"}}
Inserting == {p \in Procs : pc[p] \in {"f_lookup", "f_insert"}}

Finish(p, r) ==
    /\ pc' = [pc EXCEPT ![p] = "done"]
    /\ result' = [result EXCEPT ![p] = r]

(* ---------------------------- createAccount ---------------------------- *)
StartCreate(p) ==
    /\ pc[p] = "idle"
    /\ Len(accounts) + Cardinality(Creating) < MaxAccounts
    /\ \E u \in Users, ty \in AccountTypes :
         ctx' = [ctx EXCEPT ![p] =
                    [NoCtx EXCEPT !.op = "createAccount", !.user = u,
                                  !.accountType = ty]]
    /\ pc' = [pc EXCEPT ![p] = "c_check"]
    /\ UNCHANGED <<store, account, accountNumber, transaction, hist, result,
                   funded>>
    /\ UNCHANGED elsewhere

CreateCheck(p) ==
    /\ pc[p] = "c_check"
    /\ IF AccountsOfType(ctx[p].user, ctx[p].accountType) # {}
       THEN Finish(p, Failure("CONFLICT", "You already have an account of this type"))
       ELSE /\ pc' = [pc EXCEPT ![p] = "c_gen"]
            /\ UNCHANGED result
    /\ UNCHANGED <<store, ctx, account, accountNumber, transaction, hist,
                   funded>>
    /\ UNCHANGED elsewhere

\* the numbers generateAccountNumber may yield: any number that is stored or
\* held by a request, and one number that is neither (the unused numbers are
\* interchangeable, so the least of them stands for all)
Candidates ==
    LET known == {accounts[i].accountNumber : i \in DOMAIN accounts}
                     \cup {accountNumber[q] : q \in Procs}
        fresh == AccountNumbers \ known
    IN (known \cap AccountNumbers)
           \cup {n \in fresh : \A m \in fresh : n <= m}

IsUniqueInverted(n) == AccountsWithNumber(n) # {}

\* isUnique = !existing
IsUnique(n) == AccountsWithNumber(n) = {}

\* one round of the while (!isUnique) loop
CreateGenerate(p) ==
    /\ pc[p] = "c_gen"
    /\ \E n \in Candidates :
         /\ accountNumber' = [accountNumber EXCEPT ![p] = n]
         /\ pc' = [pc EXCEPT ![p] = IF IsUnique(n) THEN "c_insert" ELSE "c_gen"]
         /\ hist' = [hist EXCEPT ![p].retried = @ \/ ~IsUnique(n)]
    /\ UNCHANGED <<store, ctx, account, transaction, result, funded>>
    /\ UNCHANGED elsewhere

CreateInsert(p) ==
    /\ pc[p] = "c_insert"
    /\ IF ~NumberIsFree(accountNumber[p])
       THEN /\ Finish(p, Failure("INTERNAL_SERVER_ERROR", "UNIQUE constraint failed"))
            /\ UNCHANGED <<accounts, hist>>
       ELSE /\ accounts' = Append(accounts,
                              NewAccount(Len(accounts) + 1, ctx[p].user,
                                         accountNumber[p], ctx[p].accountType))
            /\ hist' = [hist EXCEPT ![p].mine = @ \cup {Len(accounts) + 1}]
            /\ pc' = [pc EXCEPT ![p] = "c_reread"]
            /\ UNCHANGED result
    /\ UNCHANGED <<transactions, clock, ctx, account, accountNumber,
                   transaction, funded>>
    /\ UNCHANGED elsewhere

CreatedOrFallback(acct) ==
    IF acct = NoAccount
    THEN [NoResult EXCEPT !.code = "OK",
                          !.account = NewAccountFallback(0, "none", 0, "none")]
    ELSE [NoResult EXCEPT !.code = "OK", !.account = acct]

\* if (!account) throw ...; return account
CreatedOrError(acct) ==
    IF acct = NoAccount
    THEN Failure("INTERNAL_SERVER_ERROR", "Failed to create account")
    ELSE [NoResult EXCEPT !.code = "OK", !.account = acct]

CreateReread(p) ==
    /\ pc[p] = "c_reread"
    /\ LET found == AccountsWithNumber(accountNumber[p]) IN
         \E a \in (IF found = {} THEN {NoAccount} ELSE found) :
            /\ account' = [account EXCEPT ![p] = a]
            /\ Finish(p, CreatedOrError(a))
    /\ UNCHANGED <<store, ctx, accountNumber, transaction, hist, funded>>
    /\ UNCHANGED elsewhere

\* the insert fails at the persistence layer: it throws, nothing is stored
CreateInsertFails(p) ==
    /\ pc[p] = "c_insert"
    /\ Finish(p, Failure("INTERNAL_SERVER_ERROR", "insert failed"))
    /\ hist' = [hist EXCEPT ![p].fault = "insert"]
    /\ UNCHANGED <<store, ctx, account, accountNumber, transaction, funded>>
    /\ UNCHANGED elsewhere

\* the re-read fails at the persistence layer: it yields no record
CreateRereadMisses(p) ==
    /\ pc[p] = "c_reread"
    /\ account' = [account EXCEPT ![p] = NoAccount]
    /\ Finish(p, CreatedOrError(NoAccount))
    /\ hist' = [hist EXCEPT ![p].fault = "reread"]
    /\ UNCHANGED <<store, ctx, accountNumber, transaction, funded>>
    /\ UNCHANGED elsewhere

(* ----------------------------- fundAccount ----------------------------- *)
Funding == {"f_lookup", "f_insert", "f_fetch", "f_update"}

StoredBalance(id) ==
    IF id \in DOMAIN accounts THEN accounts[id].balance ELSE 0

Begin(p, id) ==
    LET inFlight == {q \in Procs \ {p} :
                        pc[q] \in Funding /\ ctx[q].accountId = id}
    IN IF inFlight = {}
       THEN [NoHist EXCEPT !.before = StoredBalance(id)]
       ELSE LET q == CHOOSE q \in inFlight : TRUE
            IN [NoHist EXCEPT !.before = hist[q].before, !.joined = q]

StartFund(p) ==
    /\ pc[p] = "idle"
    /\ Len(transactions) + Cardinality(Inserting) < MaxTx
    /\ \E u \in Users, id \in AccountIds, amt \in Amounts :
         ctx' = [ctx EXCEPT ![p] =
                    [NoCtx EXCEPT !.op = "fundAccount", !.user = u,
                                  !.accountId = id, !.amount = amt]]
    /\ hist' = [hist EXCEPT ![p] = Begin(p, ctx'[p].accountId)]
    /\ pc' = [pc EXCEPT ![p] = "f_lookup"]
    /\ UNCHANGED <<store, account, accountNumber, transaction, result, funded>>
    /\ UNCHANGED elsewhere

FundPreconditionOwnedOnly(acct) ==
    IF acct = NoAccount THEN Failure("NOT_FOUND", "Account not found")
    ELSE NoResult

\* the precondition fundAccount reports for the fetched account record
FundPrecondition(acct) ==
    IF acct = NoAccount THEN Failure("NOT_FOUND", "Account not found")
    ELSE IF acct.status # "active" THEN Failure("BAD_REQUEST", "Account is not active")
    ELSE NoResult

FundLookup(p) ==
    /\ pc[p] = "f_lookup"
    /\ LET acct == FindOwnedAccount(ctx[p].accountId, ctx[p].user)
           failed == FundPrecondition(acct)
       IN /\ account' = [account EXCEPT ![p] = acct]
          /\ IF failed # NoResult
             THEN Finish(p, failed)
             ELSE /\ pc' = [pc EXCEPT ![p] = "f_insert"]
                  /\ UNCHANGED result
    /\ UNCHANGED <<store, ctx, accountNumber, transaction, hist, funded>>
    /\ UNCHANGED elsewhere

FundInsert(p) ==
    /\ pc[p] = "f_insert"
    /\ \E ts \in CreatedAtDefault :
         /\ transactions' = Append(transactions,
                               NewTransaction(Len(transactions) + 1,
                                              ctx[p].accountId, ctx[p].amount, ts))
         /\ clock' = ts
    /\ hist' = [hist EXCEPT ![p].mine = @ \cup {Len(transactions) + 1}]
    /\ pc' = [pc EXCEPT ![p] = "f_fetch"]
    /\ UNCHANGED <<accounts, ctx, account, accountNumber, transaction, result,
                   funded>>
    /\ UNCHANGED elsewhere

\* .orderBy(desc(transactions.createdAt)).limit(1).get()
FundFetch(p) ==
    /\ pc[p] = "f_fetch"
    /\ LET rows == TransactionsOf(ctx[p].accountId) IN
         IF rows = {}
         THEN transaction' = [transaction EXCEPT ![p] = NoTransaction]
         ELSE \E s \in OrderByCreatedAt(rows) :
                transaction' = [transaction EXCEPT ![p] = s[1]]
    /\ pc' = [pc EXCEPT ![p] = "f_update"]
    /\ UNCHANGED <<store, ctx, account, accountNumber, hist, result, funded>>
    /\ UNCHANGED elsewhere

FundUpdate(p) ==
    /\ pc[p] = "f_update"
    /\ accounts' = UpdateBalance(ctx[p].accountId,
                                 NewBalance(account[p].balance, ctx[p].amount))
    /\ Finish(p, [NoResult EXCEPT !.code = "OK",
                                  !.transaction = transaction[p],
                                  !.newBalance = NewBalance(account[p].balance,
                                                            ctx[p].amount)])
    /\ funded' = [funded EXCEPT ![ctx[p].accountId] = @ + 1]
    /\ UNCHANGED <<transactions, clock, ctx, account, accountNumber,
                   transaction, hist>>
    /\ UNCHANGED elsewhere

(* --------------------------- getTransactions --------------------------- *)
StartGet(p) ==
    /\ pc[p] = "idle"
    /\ \E u \in Users, id \in AccountIds :
         ctx' = [ctx EXCEPT ![p] =
                    [NoCtx EXCEPT !.op = "getTransactions", !.user = u,
                                  !.accountId = id]]
    /\ pc' = [pc EXCEPT ![p] = "g_lookup"]
    /\ UNCHANGED <<store, account, accountNumber, transaction, hist, result,
                   funded>>
    /\ UNCHANGED elsewhere

GetLookup(p) ==
    /\ pc[p] = "g_lookup"
    /\ LET acct == FindOwnedAccount(ctx[p].accountId, ctx[p].user) IN
         /\ account' = [account EXCEPT ![p] = acct]
         /\ IF acct = NoAccount
            THEN Finish(p, Failure("NOT_FOUND", "Account not found"))
            ELSE /\ pc' = [pc EXCEPT ![p] = "g_select"]
                 /\ UNCHANGED result
    /\ hist' = [hist EXCEPT ![p].lookups = @ + 1]
    /\ UNCHANGED <<store, ctx, accountNumber, transaction, funded>>
    /\ UNCHANGED elsewhere

GetSelect(p) ==
    /\ pc[p] = "g_select"
    /\ \E s \in OrderByCreatedAt(TransactionsOf(ctx[p].accountId)) :
         /\ Finish(p, [NoResult EXCEPT !.code = "OK",
                          !.list = [i \in DOMAIN s |-> Enrich(s[i], account[p])]])
         /\ hist' = [hist EXCEPT ![p].lookups = @ + 1 + EnrichLookups(s)]
    /\ UNCHANGED <<store, ctx, account, accountNumber, transaction, funded>>
    /\ UNCHANGED elsewhere

(* ------------------------------ response ------------------------------- *)
\* the response is delivered and the request's locals are gone
Respond(p) ==
    /\ pc[p] = "done"
    /\ pc' = [pc EXCEPT ![p] = "idle"]
    /\ ctx' = [ctx EXCEPT ![p] = NoCtx]
    /\ account' = [account EXCEPT ![p] = NoAccount]
    /\ accountNumber' = [accountNumber EXCEPT ![p] = 0]
    /\ transaction' = [transaction EXCEPT ![p] = NoTransaction]
    /\ hist' = [q \in Procs |->
                   IF q = p THEN NoHist
                   ELSE IF hist[q].joined = p THEN [hist[q] EXCEPT !.joined = "none"]
                   ELSE hist[q]]
    /\ result' = [result EXCEPT ![p] = NoResult]
    /\ UNCHANGED <<store, funded>>
    /\ UNCHANGED elsewhere

(* --------------------------- specifications ---------------------------- *)
Start(p) == StartCreate(p) \/ StartFund(p) \/ StartGet(p)

Step(p) ==
    \/ CreateCheck(p) \/ CreateGenerate(p) \/ CreateInsert(p) \/ CreateReread(p)
    \/ FundLookup(p) \/ FundInsert(p) \/ FundFetch(p) \/ FundUpdate(p)
    \/ GetLookup(p) \/ GetSelect(p)
    \/ Respond(p)

\* requests executed one at a time: one request slot serves them all
Serial == CHOOSE p \in Procs : TRUE

NextSeq == Start(Serial) \/ Step(Serial)

SpecSeq == Init /\ [][NextSeq]_vars

\* an account that was closed after its creation
InactiveAccount ==
    [NewAccount(2, "u2", 2, "savings") EXCEPT !.status = "closed"]

\* accounts that earlier createAccount calls have left in the store
SeededAccounts ==
    {<<NewAccount(1, "u1", 1, "checking")>>,
     <<NewAccount(1, "u1", 1, "checking"), InactiveAccount>>}

InitFund ==
    /\ accounts \in SeededAccounts
    /\ transactions = <<>>
    /\ clock = 0
    /\ pc = [p \in Procs |-> "idle"]
    /\ ctx = [p \in Procs |-> NoCtx]
    /\ account = [p \in Procs |-> NoAccount]
    /\ accountNumber = [p \in Procs |-> 0]
    /\ transaction = [p \in Procs |-> NoTransaction]
    /\ hist = [p \in Procs |-> NoHist]
    /\ result = [p \in Procs |-> NoResult]
    /\ funded = [a \in AccountIds |-> 0]
    /\ NothingElsewhere

NextFund ==
    \E p \in Procs :
        \/ StartFund(p) \/ StartGet(p)
        \/ FundLookup(p) \/ FundInsert(p) \/ FundFetch(p) \/ FundUpdate(p)
        \/ GetLookup(p) \/ GetSelect(p)
        \/ Respond(p)

\* funding and listing requests of any callers, interleaved step by step
SpecFund == InitFund /\ [][NextFund]_vars

NextCreate ==
    \E p \in Procs :
        \/ StartCreate(p)
        \/ CreateCheck(p) \/ CreateGenerate(p) \/ CreateInsert(p)
        \/ CreateReread(p)
        \/ Respond(p)

\* createAccount requests of any callers, interleaved step by step
SpecCreate == Init /\ [][NextCreate]_vars

NextCreateFaulty ==
    \/ NextCreate
    \/ \E p \in Procs : CreateInsertFails(p) \/ CreateRereadMisses(p)

\* the same, with persistence calls that may fail
SpecCreateFaulty == Init /\ [][NextCreateFaulty]_vars

(* ----------------------- generateAccountNumber ------------------------- *)
\* characters of a hash output: two decimal digits and one that is no digit
HashChars == {"0", "7", "$"}

DigitChars == {"0", "1", "2", "3", "4", "5", "6", "7", "8", "9"}

\* the hash outputs, as sequences of characters
HashOutputs == UNION {[1..n -> HashChars] : n \in 0..MaxHashLen}

AccountNumberLength == 10

\* the variables of the router and its requests
requests ==
    <<pc, ctx, account, accountNumber, transaction, hist, result, funded>>

\* no request in flight and nothing stored
Quiet ==
    /\ accounts = <<>> /\ transactions = <<>> /\ clock = 0
    /\ pc = [p \in Procs |-> "idle"]
    /\ ctx = [p \in Procs |-> NoCtx]
    /\ account = [p \in Procs |-> NoAccount]
    /\ accountNumber = [p \in Procs |-> 0]
    /\ transaction = [p \in Procs |-> NoTransaction]
    /\ hist = [p \in Procs |-> NoHist]
    /\ result = [p \in Procs |-> NoResult]
    /\ funded = [a \in AccountIds |-> 0]

RECURSIVE RemoveNonDigits(_)
\* hash.replace(/\D/g, "")
RemoveNonDigits(str) ==
    IF str = <<>> THEN <<>>
    ELSE IF Head(str) \in DigitChars
         THEN <<Head(str)>> \o RemoveNonDigits(Tail(str))
         ELSE RemoveNonDigits(Tail(str))

\* str.slice(0, end)
SliceFromStart(str, end) ==
    IF Len(str) <= end THEN str ELSE SubSeq(str, 1, end)

PadEndNever(str, length, fill) == str

\* str.padEnd(length, fill), fill a single character
PadEnd(str, length, fill) ==
    IF Len(str) >= length THEN str
    ELSE str \o [i \in 1..(length - Len(str)) |-> fill]

GenerateAccountNumber ==
    /\ output = <<>>
    /\ LET digits == RemoveNonDigits(input) IN
         output' = PadEnd(SliceFromStart(digits, AccountNumberLength),
                          AccountNumberLength, "0")
    /\ UNCHANGED <<store, requests, sessions, issued, input>>

InitGen ==
    /\ Quiet
    /\ sessions = {} /\ issued = 0
    /\ input \in HashOutputs
    /\ output = <<>>

\* generateAccountNumber applied to any hash output
SpecGen == InitGen /\ [][GenerateAccountNumber]_vars

(* --------------------------- session expiry ---------------------------- *)
Times == 0..MaxTime

IsValidUntilAfter(expiresAt, now) == expiresAt >= now

\* isValid(session, now), by the session's expiry timestamp
IsValid(expiresAt, now) == ~(now >= expiresAt)

CheckSession ==
    /\ output = <<>>
    /\ output' = <<IsValid(input[1], input[2])>>
    /\ UNCHANGED <<store, requests, sessions, issued, input>>

InitExpiry ==
    /\ Quiet
    /\ sessions = {} /\ issued = 0
    /\ input \in Times \X Times
    /\ output = <<>>

\* isValid applied to any expiry timestamp and any instant
SpecExpiry == InitExpiry /\ [][CheckSession]_vars

(* ------------------------------ sessions ------------------------------- *)
\* the tokens a caller may present
Tokens == 1..MaxSessions

NewSession(token, user) == [token |-> token, userId |-> user]

SessionsOf(user) == {s \in sessions : s.userId = user}

SessionsWithToken(token) == {s \in sessions : s.token = token}

SessionsAfterStartKeeping(user, token) ==
    sessions \cup {NewSession(token, user)}

\* every session of the user invalidated, one new session created
SessionsAfterStart(user, token) ==
    (sessions \ SessionsOf(user)) \cup {NewSession(token, user)}

\* startSession(userId): invalidate and create as one step; the fresh token
\* is the next of a counter
StartSession(p) ==
    /\ pc[p] = "idle"
    /\ issued < MaxSessions
    /\ \E u \in Users :
         /\ sessions' = SessionsAfterStart(u, issued + 1)
         /\ ctx' = [ctx EXCEPT ![p] =
                       [NoCtx EXCEPT !.op = "startSession", !.user = u,
                                     !.token = issued + 1]]
    /\ issued' = issued + 1
    /\ Finish(p, [NoResult EXCEPT !.code = "OK"])
    /\ UNCHANGED <<store, account, accountNumber, transaction, hist, funded>>
    /\ UNCHANGED <<input, output>>

\* endSession(token)
StartEnd(p) ==
    /\ pc[p] = "idle"
    /\ \E t \in Tokens :
         ctx' = [ctx EXCEPT ![p] =
                    [NoCtx EXCEPT !.op = "endSession", !.token = t]]
    /\ pc' = [pc EXCEPT ![p] = "e_lookup"]
    /\ UNCHANGED <<store, account, accountNumber, transaction, hist, result,
                   funded>>
    /\ UNCHANGED elsewhere

\* no session of that token: idempotent success
EndLookup(p) ==
    /\ pc[p] = "e_lookup"
    /\ IF SessionsWithToken(ctx[p].token) = {}
       THEN Finish(p, [NoResult EXCEPT !.code = "OK",
                                       !.message = "No active session"])
       ELSE /\ pc' = [pc EXCEPT ![p] = "e_delete"]
            /\ UNCHANGED result
    /\ UNCHANGED <<store, ctx, account, accountNumber, transaction, hist,
                   funded>>
    /\ UNCHANGED elsewhere

EndDelete(p) ==
    /\ pc[p] = "e_delete"
    /\ sessions' = sessions \ SessionsWithToken(ctx[p].token)
    /\ pc' = [pc EXCEPT ![p] = "e_verify"]
    /\ UNCHANGED <<store, ctx, account, accountNumber, transaction, hist,
                   result, funded>>
    /\ UNCHANGED <<issued, input, output>>

\* the delete removes no record
EndDeleteFails(p) ==
    /\ pc[p] = "e_delete"
    /\ hist' = [hist EXCEPT ![p].fault = "delete"]
    /\ pc' = [pc EXCEPT ![p] = "e_verify"]
    /\ UNCHANGED <<store, ctx, account, accountNumber, transaction, result,
                   funded>>
    /\ UNCHANGED elsewhere

LogoutResultUnverified(remains) ==
    [NoResult EXCEPT !.code = "OK", !.message = "Logged out"]

\* the verification of the deletion
LogoutResult(remains) ==
    IF remains
    THEN Failure("INTERNAL_SERVER_ERROR", "Failed to logout")
    ELSE [NoResult EXCEPT !.code = "OK", !.message = "Logged out"]

EndVerify(p) ==
    /\ pc[p] = "e_verify"
    /\ Finish(p, LogoutResult(SessionsWithToken(ctx[p].token) # {}))
    /\ UNCHANGED <<store, ctx, account, accountNumber, transaction, hist,
                   funded>>
    /\ UNCHANGED elsewhere

NextSession ==
    \E p \in Procs :
        \/ StartSession(p)
        \/ StartEnd(p) \/ EndLookup(p)
        \/ EndDelete(p) \/ EndDeleteFails(p)
        \/ EndVerify(p)
        \/ Respond(p)

\* startSession and endSession requests of any callers, interleaved
SpecSession == Init /\ [][NextSession]_vars

(* -------------------------- validateCardNumber ------------------------- *)
\* the decimal digits in their order: parseInt(c, 10) of the (n+1)-th is n
DigitList == <<"0", "1", "2", "3", "4", "5", "6", "7", "8", "9">>

\* parseInt(digits[i], 10)
ParseDigit(c) == CHOOSE n \in 0..9 : DigitList[n + 1] = c

\* the first 12 characters of the card numbers entered
CardStems ==
    { <<"4", "5", "3", "2", "0", "1", "5", "1", "1", "2", "8", "3">>,
      <<"5", "4", "2", "5", "2", "3", "3", "4", "3", "0", "1", "0">> }

\* the characters that follow them
CardTailChars == {"0", "3", "6", "-"}

CardInputs ==
    { stem \o tail :
        stem \in CardStems,
        tail \in UNION {[1..n -> CardTailChars] : n \in 0..MaxCardTail} }

CardNumberLength == 16

LuhnDigitUnreduced(digit, isEven) ==
    IF isEven THEN digit * 2 ELSE digit

\* if (isEven) { digit *= 2; if (digit > 9) digit -= 9 }
LuhnDigit(digit, isEven) ==
    IF isEven
    THEN (IF digit * 2 > 9 THEN digit * 2 - 9 ELSE digit * 2)
    ELSE digit

RECURSIVE LuhnLoop(_, _, _, _)
\* for (let i = digits.length - 1; i >= 0; i--); i counts from 1 here
LuhnLoop(digits, i, sum, isEven) ==
    IF i < 1 THEN sum
    ELSE LuhnLoop(digits, i - 1,
                  sum + LuhnDigit(ParseDigit(digits[i]), isEven), ~isEven)

ValidateCardNumberByLength(cardNumber) ==
    Len(RemoveNonDigits(cardNumber)) = CardNumberLength

ValidateCardNumber(cardNumber) ==
    LET digits == RemoveNonDigits(cardNumber) IN
        IF Len(digits) # CardNumberLength THEN FALSE
        ELSE LuhnLoop(digits, Len(digits), 0, FALSE) % 10 = 0

ValidateCard ==
    /\ output = <<>>
    /\ output' = <<ValidateCardNumber(input)>>
    /\ UNCHANGED <<store, requests, sessions, issued, input>>

InitLuhn ==
    /\ Quiet
    /\ sessions = {} /\ issued = 0
    /\ input \in CardInputs
    /\ output = <<>>

\* validateCardNumber applied to any entered card number
SpecLuhn == InitLuhn /\ [][ValidateCard]_vars

(* ------------------------- the last digit of a card -------------------- *)
\* card numbers short of their last digit
CardPrefixes ==
    { stem \o rest : stem \in CardStems, rest \in [1..3 -> DigitChars] }

\* validateCardNumber for the prefix followed by each of the ten digits
TryLastDigits ==
    /\ output = <<>>
    /\ output' = [d \in 1..10 |->
                     ValidateCardNumber(Append(input, DigitList[d]))]
    /\ UNCHANGED <<store, requests, sessions, issued, input>>

InitLastDigit ==
    /\ Quiet
    /\ sessions = {} /\ issued = 0
    /\ input \in CardPrefixes
    /\ output = <<>>

SpecLastDigit == InitLastDigit /\ [][TryLastDigits]_vars

(* ---------------------------- detectCardType -------------------------- *)
\* the leading characters of the card numbers classified
PrefixChars == DigitChars \cup {"-"}

PrefixInputs == UNION {[1..n -> PrefixChars] : n \in 0..MaxPrefixLen}

\* the character class [a-b] of a pattern
CharRange(a, b) == {DigitList[n + 1] : n \in a..b}

\* the i-th character exists and is of the class
At(str, i, class) == i <= Len(str) /\ str[i] \in class

\* /^4/
IsVisa(d) == At(d, 1, {"4"})

IsMastercardLoose(d) ==
    \/ At(d, 1, {"5"}) /\ At(d, 2, CharRange(1, 5))
    \/ At(d, 1, {"2"}) /\ At(d, 2, CharRange(2, 7))

\* /^5[1-5]/ || /^2(22[1-9]|2[3-9][0-9]|[3-6][0-9]{2}|7[0-1][0-9]|720)/
IsMastercard(d) ==
    \/ At(d, 1, {"5"}) /\ At(d, 2, CharRange(1, 5))
    \/ /\ At(d, 1, {"2"})
       /\ \/ At(d, 2, {"2"}) /\ At(d, 3, {"2"}) /\ At(d, 4, CharRange(1, 9))
          \/ At(d, 2, {"2"}) /\ At(d, 3, CharRange(3, 9))
                /\ At(d, 4, CharRange(0, 9))
          \/ At(d, 2, CharRange(3, 6)) /\ At(d, 3, CharRange(0, 9))
                /\ At(d, 4, CharRange(0, 9))
          \/ At(d, 2, {"7"}) /\ At(d, 3, CharRange(0, 1))
                /\ At(d, 4, CharRange(0, 9))
          \/ At(d, 2, {"7"}) /\ At(d, 3, {"2"}) /\ At(d, 4, {"0"})

\* /^3[47]/
IsAmericanExpress(d) == At(d, 1, {"3"}) /\ At(d, 2, {"4", "7"})

\* /^(6011|65|64[4-9]|622)/
IsDiscover(d) ==
    /\ At(d, 1, {"6"})
    /\ \/ At(d, 2, {"0"}) /\ At(d, 3, {"1"}) /\ At(d, 4, {"1"})
       \/ At(d, 2, {"5"})
       \/ At(d, 2, {"4"}) /\ At(d, 3, CharRange(4, 9))
       \/ At(d, 2, {"2"}) /\ At(d, 3, {"2"})

\* /^(30[0-5]|36|38)/
IsDinersClub(d) ==
    /\ At(d, 1, {"3"})
    /\ \/ At(d, 2, {"0"}) /\ At(d, 3, CharRange(0, 5))
       \/ At(d, 2, {"6"})
       \/ At(d, 2, {"8"})

\* /^35(2[89]|[3-8][0-9])/
IsJCB(d) ==
    /\ At(d, 1, {"3"}) /\ At(d, 2, {"5"})
    /\ \/ At(d, 3, {"2"}) /\ At(d, 4, {"8", "9"})
       \/ At(d, 3, CharRange(3, 8)) /\ At(d, 4, CharRange(0, 9))

DetectCardType(cardNumber) ==
    LET digits == RemoveNonDigits(cardNumber) IN
        IF IsVisa(digits) THEN "Visa"
        ELSE IF IsMastercard(digits) THEN "Mastercard"
        ELSE IF IsAmericanExpress(digits) THEN "American Express"
        ELSE IF IsDiscover(digits) THEN "Discover"
        ELSE IF IsDinersClub(digits) THEN "Diners Club"
        ELSE IF IsJCB(digits) THEN "JCB"
        ELSE "null"

\* the networks whose test the digits pass, whatever the order of the tests
NetworksMatching(cardNumber) ==
    LET digits == RemoveNonDigits(cardNumber) IN
        {n \in {"Visa", "Mastercard", "American Express", "Discover",
                "Diners Club", "JCB"} :
            \/ n = "Visa" /\ IsVisa(digits)
            \/ n = "Mastercard" /\ IsMastercard(digits)
            \/ n = "American Express" /\ IsAmericanExpress(digits)
            \/ n = "Discover" /\ IsDiscover(digits)
            \/ n = "Diners Club" /\ IsDinersClub(digits)
            \/ n = "JCB" /\ IsJCB(digits)}

DetectCard ==
    /\ output = <<>>
    /\ output' = <<DetectCardType(input), NetworksMatching(input)>>
    /\ UNCHANGED <<store, requests, sessions, issued, input>>

InitDetect ==
    /\ Quiet
    /\ sessions = {} /\ issued = 0
    /\ input \in PrefixInputs
    /\ output = <<>>

\* detectCardType applied to any leading characters
SpecDetect == InitDetect /\ [][DetectCard]_vars

(* --------------------------- amount of the form ------------------------ *)
\* the characters of the amounts entered
AmountChars == {"0", "1", "5", "9", "."}

AmountTexts == UNION {[1..n -> AmountChars] : n \in 0..MaxAmountLen}

MaxFundingAmount == 10000

RECURSIVE DigitRun(_, _)
\* the number of digit characters of str from position i on, up to the first
\* character that is none
DigitRun(str, i) ==
    IF i > Len(str) \/ str[i] \notin DigitChars THEN 0
    ELSE 1 + DigitRun(str, i + 1)

RECURSIVE NumberOf(_)
\* the number a sequence of digit characters writes (0 for none)
NumberOf(ds) ==
    IF ds = <<>> THEN 0
    ELSE 10 * NumberOf(SubSeq(ds, 1, Len(ds) - 1)) + ParseDigit(ds[Len(ds)])

NaN == [nan |-> TRUE, whole |-> 0, fraction |-> 0, decimals |-> 0]

\* parseFloat(value): the longest prefix digits [. digits] with a digit in
\* it, as whole + fraction / 10^decimals; NaN when there is none
ParseFloat(str) ==
    LET whole == DigitRun(str, 1)
        dotted == whole < Len(str) /\ str[whole + 1] = "."
        frac == IF dotted THEN DigitRun(str, whole + 2) ELSE 0
    IN IF whole + frac = 0 THEN NaN
       ELSE [nan |-> FALSE,
             whole |-> NumberOf(SubSeq(str, 1, whole)),
             fraction |-> NumberOf(SubSeq(str, whole + 2, whole + 1 + frac)),
             decimals |-> frac]

RECURSIVE PowerOfTen(_)
PowerOfTen(n) == IF n = 0 THEN 1 ELSE 10 * PowerOfTen(n - 1)

\* /^(0|[1-9]\d*)(\.\d{0,2})?$/.test(value)
MatchesAmountPattern(str) ==
    LET whole == DigitRun(str, 1)
        frac == DigitRun(str, whole + 2)
    IN /\ whole >= 1
       /\ str[1] = "0" => whole = 1
       /\ \/ Len(str) = whole
          \/ /\ str[whole + 1] = "."
             /\ frac <= 2
             /\ Len(str) = whole + 1 + frac

MinAmountOrZero(str) == ~ParseFloat(str).nan

\* minAmount: amount > 0
MinAmount(str) ==
    LET amount == ParseFloat(str) IN
        ~amount.nan /\ (amount.whole > 0 \/ amount.fraction > 0)

\* maxAmount: amount <= 10000
MaxAmount(str) ==
    LET amount == ParseFloat(str) IN
        /\ ~amount.nan
        /\ \/ amount.whole < MaxFundingAmount
           \/ amount.whole = MaxFundingAmount /\ amount.fraction = 0

\* noLeadingZeros: !/^0\d/.test(value)
NoLeadingZeros(str) == ~(At(str, 1, {"0"}) /\ At(str, 2, DigitChars))

\* the rules registered for the amount field: required, pattern, validate
ValidateAmount(str) ==
    /\ str # <<>>
    /\ MatchesAmountPattern(str)
    /\ MinAmount(str)
    /\ MaxAmount(str)
    /\ NoLeadingZeros(str)

CheckAmount ==
    /\ output = <<>>
    /\ output' = <<ValidateAmount(input)>>
    /\ UNCHANGED <<store, requests, sessions, issued, input>>

InitAmount ==
    /\ Quiet
    /\ sessions = {} /\ issued = 0
    /\ input \in AmountTexts
    /\ output = <<>>

\* the amount rules applied to any text entered
SpecAmount == InitAmount /\ [][CheckAmount]_vars

(* ----------------------- the funding form and its request -------------- *)
\* the amounts typed into the form
FormAmounts == { <<"2", "5", ".", "7", "5">>, <<"0">> }

\* the card or account numbers given: a Visa number, the same with a wrong
\* last digit, and a number of no network with a right last digit
SourceNumbers ==
    { <<"4", "5", "3", "2", "0", "1", "5", "1", "1", "2", "8", "3",
        "0", "3", "6", "6">>,
      <<"4", "5", "3", "2", "0", "1", "5", "1", "1", "2", "8", "3",
        "0", "3", "6", "0">>,
      <<"9", "9", "9", "9", "9", "9", "9", "9", "9", "9", "9", "9",
        "9", "9", "9", "5">> }

\* the routing numbers given
RoutingNumbers ==
    { <<"1", "2", "3", "4", "5", "6", "7", "8", "9">>,
      <<"0", "0", "0", "0", "0", "0", "0", "0", "0">>,
      <<"1", "2", "3", "4", "5", "6", "7", "8">>,
      <<"1", "2", "3", "4", "5", "6", "7", "8", "9", "0">>,
      <<"1", "2", "3", "4", "5", "6", "7", "8", "x">> }

\* fundingSource values: any type, any number, routingNumber absent or given
FundingSources ==
    { [type |-> ty, accountNumber |-> n, given |-> g, routingNumber |-> r,
       form |-> FALSE] :
        ty \in {"card", "bank"}, n \in SourceNumbers, g \in {TRUE},
        r \in RoutingNumbers }
    \cup
    { [type |-> ty, accountNumber |-> n, given |-> FALSE,
       routingNumber |-> <<>>, form |-> FALSE] :
        ty \in {"card", "bank"}, n \in SourceNumbers }

\* /^\d+$/ : digits only, at least one
AllDigits(str) == str # <<>> /\ DigitRun(str, 1) = Len(str)

\* validCard
ValidCard(fundingType, value) ==
    \/ fundingType # "card"
    \/ DetectCardType(value) # "null" /\ ValidateCardNumber(value)

\* the rules registered for accountNumber: required, pattern, validate
AccountNumberRules(fundingType, value) ==
    /\ value # <<>>
    /\ IF fundingType = "card"
       THEN AllDigits(value) /\ Len(value) = CardNumberLength
       ELSE AllDigits(value)
    /\ ValidCard(fundingType, value)

RoutingNumberLength == 9

\* notAllZeros
NotAllZeros(value) ==
    value = <<>> \/ value # [i \in 1..RoutingNumberLength |-> "0"]

\* the rules registered for routingNumber, a field of bank funding only:
\* required, pattern, validate
RoutingNumberRules(fundingType, given, value) ==
    fundingType = "bank" =>
        /\ given /\ value # <<>>
        /\ AllDigits(value) /\ Len(value) = RoutingNumberLength
        /\ NotAllZeros(value)

\* handleSubmit passes the data on when every registered rule holds
FormValid(amountText, src) ==
    /\ ValidateAmount(amountText)
    /\ AccountNumberRules(src.type, src.accountNumber)
    /\ RoutingNumberRules(src.type, src.given, src.routingNumber)

\* parseFloat(data.amount), in hundredths
AmountOfText(amountText) ==
    LET amount == ParseFloat(amountText) IN
        IF amount.nan \/ amount.decimals > 2 THEN 0
        ELSE amount.whole * 100
                 + amount.fraction * PowerOfTen(2 - amount.decimals)

\* the form is submitted: rejected by its rules, or sent as a fundAccount
\* request whose input the router's schema accepts
SubmitForm(p) ==
    /\ pc[p] = "idle"
    /\ Len(transactions) + Cardinality(Inserting) < MaxTx
    /\ \E u \in Users, id \in AccountIds, text \in FormAmounts,
          src \in FundingSources :
         /\ ctx' = [ctx EXCEPT ![p] =
                       [NoCtx EXCEPT !.op = "fundAccount", !.user = u,
                                     !.accountId = id,
                                     !.amount = AmountOfText(text),
                                     !.source = [src EXCEPT !.form = TRUE]]]
         /\ hist' = [hist EXCEPT ![p] = Begin(p, id)]
         /\ IF FormValid(text, src)
            THEN pc' = [pc EXCEPT ![p] = "f_lookup"] /\ UNCHANGED result
            ELSE Finish(p, Failure("VALIDATION", "Invalid form data"))
    /\ UNCHANGED <<store, account, accountNumber, transaction, funded>>
    /\ UNCHANGED elsewhere

\* z.object({ accountId, amount: z.number().positive(), fundingSource:
\* { type, accountNumber: z.string(), routingNumber: z.string().optional() }})
FundInputAccepted(amount, src) ==
    /\ amount > 0
    /\ src.type \in {"card", "bank"}

\* a fundAccount request of any client
RequestFund(p) ==
    /\ pc[p] = "idle"
    /\ Len(transactions) + Cardinality(Inserting) < MaxTx
    /\ \E u \in Users, id \in AccountIds, amt \in Amounts \cup {0},
          src \in FundingSources :
         /\ ctx' = [ctx EXCEPT ![p] =
                       [NoCtx EXCEPT !.op = "fundAccount", !.user = u,
                                     !.accountId = id, !.amount = amt,
                                     !.source = src]]
         /\ hist' = [hist EXCEPT ![p] = Begin(p, id)]
         /\ IF FundInputAccepted(amt, src)
            THEN pc' = [pc EXCEPT ![p] = "f_lookup"] /\ UNCHANGED result
            ELSE Finish(p, Failure("BAD_REQUEST", "Invalid input"))
    /\ UNCHANGED <<store, account, accountNumber, transaction, funded>>
    /\ UNCHANGED elsewhere

NextSubmit ==
    \/ SubmitForm(Serial) \/ RequestFund(Serial)
    \/ FundLookup(Serial) \/ FundInsert(Serial)
    \/ FundFetch(Serial) \/ FundUpdate(Serial)
    \/ Respond(Serial)

\* funding through the form and by requests to the router, one at a time
SpecSubmit == InitFund /\ [][NextSubmit]_vars

(* ----------------------- fundAccount with failing calls ---------------- *)
\* the re-read of the transaction fails at the persistence layer: it throws
FundFetchFails(p) ==
    /\ pc[p] = "f_fetch"
    /\ Finish(p, Failure("INTERNAL_SERVER_ERROR", "select failed"))
    /\ hist' = [hist EXCEPT ![p].fault = "fetch"]
    /\ UNCHANGED <<store, ctx, account, accountNumber, transaction, funded>>
    /\ UNCHANGED elsewhere

\* the update of the balance fails at the persistence layer: it throws
FundUpdateFails(p) ==
    /\ pc[p] = "f_update"
    /\ Finish(p, Failure("INTERNAL_SERVER_ERROR", "update failed"))
    /\ hist' = [hist EXCEPT ![p].fault = "update"]
    /\ UNCHANGED <<store, ctx, account, accountNumber, transaction, funded>>
    /\ UNCHANGED elsewhere

NextFundFaulty ==
    \/ StartFund(Serial)
    \/ FundLookup(Serial) \/ FundInsert(Serial)
    \/ FundFetch(Serial) \/ FundUpdate(Serial)
    \/ FundFetchFails(Serial) \/ FundUpdateFails(Serial)
    \/ Respond(Serial)

\* fundAccount requests one at a time, with persistence calls that may fail
SpecFundFaulty == InitFund /\ [][NextFundFaulty]_vars

\* the generator yields a candidate the existence check reports as unused
LeaveLoop(p) == CreateGenerate(p) /\ pc'[p] = "c_insert"

\* concurrent createAccount requests in which a request that can leave the
\* loop, insert or re-read eventually does
SpecCreateFair ==
    /\ Init /\ [][NextCreate]_vars
    /\ \A p \in Procs :
         /\ WF_vars(LeaveLoop(p))
         /\ WF_vars(CreateInsert(p))
         /\ WF_vars(CreateReread(p))

(* ===================== properties of the service ======================= *)
Succeeded(p, op) ==
    pc[p] = "done" /\ ctx[p].op = op /\ result[p].code = "OK"

Failed(p, op) ==
    pc[p] = "done" /\ ctx[p].op = op /\ result[p].code \notin {"OK", "NONE"}

RECURSIVE SumAmounts(_)
SumAmounts(rows) ==
    IF rows = {} THEN 0
    ELSE LET t == CHOOSE t \in rows : TRUE
         IN t.amount + SumAmounts(rows \ {t})

Deposits(id) ==
    {t \in Range(transactions) : t.accountId = id /\ t.type = "deposit"}

\* C1: two fundAccount requests on the same account that overlap both apply
\* their full amount: once both have completed, the stored balance is the
\* balance before them plus both amounts.
C1_NoLostUpdate ==
    \A p, q \in Procs :
        ( /\ p # q
          /\ Succeeded(p, "fundAccount") /\ Succeeded(q, "fundAccount")
          /\ ctx[p].accountId = ctx[q].accountId
          /\ hist[q].joined = p )
        => accounts[ctx[p].accountId].balance
             = hist[p].before + ctx[p].amount + ctx[q].amount

\* C2: a successful fundAccount run on its own returns as newBalance the
\* stored balance before the call plus the amount, and that value is the
\* balance now stored for the account (10050 + 2575 = 12625).
C2_SingleAddition ==
    \A p \in Procs :
        Succeeded(p, "fundAccount") =>
            /\ result[p].newBalance = hist[p].before + ctx[p].amount
            /\ accounts[ctx[p].accountId].balance = result[p].newBalance
            /\ (hist[p].before = 10050 /\ ctx[p].amount = 2575
                    => result[p].newBalance = 12625)

C2_Witness ==
    \E p \in Procs :
        /\ Succeeded(p, "fundAccount")
        /\ hist[p].before = 10050 /\ ctx[p].amount = 2575
        /\ accounts[ctx[p].accountId].balance = 12625

\* C3: with requests executed one at a time, whenever no fundAccount is
\* between its insert and its balance update, the balance of every account
\* is the sum of the amounts of the deposits recorded for it.
C3_BalanceIsSumOfDeposits ==
    (\A p \in Procs : pc[p] \notin {"f_fetch", "f_update"}) =>
        \A i \in DOMAIN accounts :
            accounts[i].balance = SumAmounts(Deposits(accounts[i].id))

C3_Witness ==
    /\ pc[Serial] = "idle"
    /\ \E i, j \in DOMAIN accounts :
         /\ i # j
         /\ Cardinality(Deposits(i)) >= 1
         /\ Cardinality(Deposits(j)) >= 1
         /\ accounts[i].balance = 2575 /\ accounts[j].balance = 10050

\* C4: a successful fundAccount has inserted exactly one row, for the target
\* account, of type deposit, with status completed and the given amount; and
\* after N successful fundings of an account, getTransactions returns N
\* records for it.
C4_OneRowPerFunding ==
    \A p \in Procs :
        /\ Succeeded(p, "fundAccount") =>
             /\ Cardinality(hist[p].mine) = 1
             /\ \A i \in hist[p].mine :
                  /\ i \in DOMAIN transactions
                  /\ transactions[i].accountId = ctx[p].accountId
                  /\ transactions[i].type = "deposit"
                  /\ transactions[i].status = "completed"
                  /\ transactions[i].amount = ctx[p].amount
        /\ Succeeded(p, "getTransactions") =>
             Len(result[p].list) = funded[ctx[p].accountId]

C4_Witness ==
    \E p \in Procs :
        /\ Succeeded(p, "getTransactions")
        /\ funded[ctx[p].accountId] = MaxTx
        /\ Len(result[p].list) = MaxTx

\* C5: the transaction record fundAccount returns is the row this same call
\* inserted, so its amount is the call's amount.
C5_ReturnsInsertedRow ==
    \A p \in Procs :
        Succeeded(p, "fundAccount") =>
            /\ result[p].transaction.id \in hist[p].mine
            /\ result[p].transaction.amount = ctx[p].amount

OwnedBy(id, user) ==
    \E i \in DOMAIN accounts : accounts[i].id = id /\ accounts[i].userId = user

ActiveFor(id, user) ==
    \E i \in DOMAIN accounts :
        accounts[i].id = id /\ accounts[i].userId = user
                            /\ accounts[i].status = "active"

Missing(id) == \A i \in DOMAIN accounts : accounts[i].id # id

Foreign(id, user) == ~Missing(id) /\ ~OwnedBy(id, user)

StoreUntouched == accounts' = accounts /\ transactions' = transactions

C6_NothingInserted ==
    \A p \in Procs : Failed(p, "fundAccount") => hist[p].mine = {}

C6_LookupStep ==
    \A p \in Procs :
        (pc[p] = "f_lookup" /\ pc'[p] # "f_lookup") =>
            /\ ~OwnedBy(ctx[p].accountId, ctx[p].user) =>
                 /\ pc'[p] = "done" /\ result'[p].code = "NOT_FOUND"
                 /\ StoreUntouched
            /\ ( /\ OwnedBy(ctx[p].accountId, ctx[p].user)
                 /\ ~ActiveFor(ctx[p].accountId, ctx[p].user) ) =>
                 /\ pc'[p] = "done" /\ result'[p].code = "BAD_REQUEST"
                 /\ StoreUntouched

C7_LookupStep ==
    \A p \in Procs :
        ( /\ pc[p] \in {"f_lookup", "g_lookup"} /\ pc'[p] # pc[p]
          /\ ~OwnedBy(ctx[p].accountId, ctx[p].user) )
        => StoreUntouched

C7_SameOutcome ==
    \A p, q \in Procs :
        ( /\ pc[p] = "done" /\ pc[q] = "done"
          /\ ctx[p].op \in {"fundAccount", "getTransactions"}
          /\ ctx[q].op = ctx[p].op
          /\ Missing(ctx[p].accountId)
          /\ Foreign(ctx[q].accountId, ctx[q].user) )
        => /\ result[p] = result[q]
           /\ result[p].code = "NOT_FOUND"
           /\ hist[p].mine = {} /\ hist[q].mine = {}

C8_NewestFirst ==
    \A p \in Procs :
        Succeeded(p, "getTransactions") =>
            \A i \in DOMAIN result[p].list :
                i > 1 => result[p].list[i - 1].createdAt
                           >= result[p].list[i].createdAt

C8_Witness ==
    \E p \in Procs :
        /\ Succeeded(p, "getTransactions")
        /\ Len(result[p].list) >= 2
        /\ result[p].list[1].createdAt > result[p].list[2].createdAt

\* C9: two transactions of an account with the same creation timestamp are
\* listed with the higher identifier first.
C9_TiesByIdDescending ==
    \A p \in Procs :
        Succeeded(p, "getTransactions") =>
            \A i \in DOMAIN result[p].list :
                (i > 1 /\ result[p].list[i - 1].createdAt
                            = result[p].list[i].createdAt)
                => result[p].list[i - 1].id > result[p].list[i].id

\* C10: for an account of the caller, getTransactions returns exactly the
\* stored transactions of that account (none missing, none of another
\* account), each carrying the account's type as accountType.
C10_ExactlyTheAccountsRows ==
    \A p \in Procs :
        Succeeded(p, "getTransactions") =>
            LET id == ctx[p].accountId
                stored == {i \in DOMAIN transactions :
                              transactions[i].accountId = id}
                list == result[p].list
            IN /\ Len(list) = Cardinality(stored)
               /\ {list[i].id : i \in DOMAIN list} = stored
               /\ \A i \in DOMAIN list :
                    /\ list[i].accountId = id
                    /\ list[i].type = transactions[list[i].id].type
                    /\ list[i].amount = transactions[list[i].id].amount
                    /\ list[i].status = transactions[list[i].id].status
                    /\ list[i].createdAt = transactions[list[i].id].createdAt
                    /\ list[i].accountType = accounts[id].accountType

C10_Witness ==
    \E p \in Procs :
        /\ Succeeded(p, "getTransactions")
        /\ Len(result[p].list) >= 1
        /\ \E i \in DOMAIN transactions :
             transactions[i].accountId # ctx[p].accountId

\* C11: the number of lookups one getTransactions call issues does not depend
\* on how many transactions the account has: one account fetch and one
\* transaction fetch, with no further lookup per returned transaction (and
\* the account fetch alone when the call fails).
C11_TwoLookups ==
    \A p \in Procs :
        /\ Succeeded(p, "getTransactions") => hist[p].lookups = 2
        /\ Failed(p, "getTransactions") => hist[p].lookups = 1

C11_Witness ==
    \E p \in Procs :
        /\ Succeeded(p, "getTransactions")
        /\ Len(result[p].list) = MaxTx
        /\ hist[p].lookups = 2

\* C12: under any interleaving of createAccount requests no user owns two
\* accounts of the same type, and a createAccount that fails with CONFLICT
\* has inserted no account.
C12_OneAccountPerType ==
    /\ \A i, j \in DOMAIN accounts :
         (accounts[i].userId = accounts[j].userId
            /\ accounts[i].accountType = accounts[j].accountType) => i = j
    /\ \A p \in Procs :
         (Failed(p, "createAccount") /\ result[p].code = "CONFLICT")
            => hist[p].mine = {}

\* C13: under any interleaving of createAccount requests, also when two
\* requests hold the same candidate, no two stored accounts have the same
\* account number.
C13_UniqueAccountNumbers ==
    \A i, j \in DOMAIN accounts :
        accounts[i].accountNumber = accounts[j].accountNumber => i = j

C13_Witness ==
    \E p, q \in Procs :
        /\ p # q
        /\ accountNumber[p] = accountNumber[q]
        /\ Succeeded(p, "createAccount")
        /\ Failed(q, "createAccount") /\ hist[q].mine = {}
        /\ result[q].code = "INTERNAL_SERVER_ERROR"

\* C14: a uniqueness violation at the insert is not surfaced to the caller:
\* createAccount retries with a new candidate and completes successfully.
C14_ViolationNotSurfaced ==
    \A p \in Procs :
        (pc[p] = "done" /\ ctx[p].op = "createAccount"
            /\ result[p].code # "CONFLICT")
        => result[p].code = "OK"

\* C15: a successful createAccount has stored exactly one new account, owned
\* by the caller, of the requested type, with balance 0 and status active,
\* and the record it returns is that stored account.
C15_StoresOneAccount ==
    \A p \in Procs :
        Succeeded(p, "createAccount") =>
            /\ Cardinality(hist[p].mine) = 1
            /\ \A i \in hist[p].mine :
                 /\ i \in DOMAIN accounts
                 /\ accounts[i] = result[p].account
                 /\ accounts[i].userId = ctx[p].user
                 /\ accounts[i].accountType = ctx[p].accountType
                 /\ accounts[i].balance = 0
                 /\ accounts[i].status = "active"

C15_Witness ==
    \E p, q \in Procs :
        /\ p # q
        /\ Succeeded(p, "createAccount") /\ Succeeded(q, "createAccount")
        /\ Len(accounts) = MaxAccounts

\* C16: when the insert or the re-read of createAccount yields no stored
\* account, the call fails with INTERNAL_SERVER_ERROR; an account it returns
\* is a record of the store, with balance 0.
C16_ErrorNotFallback ==
    \A p \in Procs :
        (pc[p] = "done" /\ ctx[p].op = "createAccount") =>
            /\ hist[p].fault # "none" =>
                 result[p].code = "INTERNAL_SERVER_ERROR"
            /\ result[p].code = "OK" =>
                 /\ \E i \in DOMAIN accounts : accounts[i] = result[p].account
                 /\ result[p].account.balance = 0
            /\ result[p].code # "OK" => result[p].account = NoAccount

C16_Witness ==
    \E p, q \in Procs :
        /\ pc[p] = "done" /\ hist[p].fault = "reread"
        /\ result[p].code = "INTERNAL_SERVER_ERROR"
        /\ pc[q] = "done" /\ hist[q].fault = "insert"
        /\ result[q].code = "INTERNAL_SERVER_ERROR"

\* C17: for every hash output generateAccountNumber returns exactly 10
\* characters, each a decimal digit: the first 10 digits of the hash in their
\* order, then '0' up to the length of 10 when the hash has fewer digits.
C17_TenDigits ==
    output # <<>> =>
        LET found == SelectSeq(input, LAMBDA c : c \in DigitChars) IN
            /\ Len(output) = 10
            /\ \A i \in 1..10 :
                 output[i] = IF i <= Len(found) THEN found[i] ELSE "0"

C17_Witness ==
    /\ output # <<>>
    /\ \E i \in DOMAIN input : input[i] \notin DigitChars
    /\ \E i \in DOMAIN input : input[i] = "7"
    /\ Len(SelectSeq(input, LAMBDA c : c \in DigitChars)) < 10
    /\ Len(output) = 10

C19_OneSessionInState ==
    \A u \in Users :
        \A s, t \in sessions :
            (s.userId = u /\ t.userId = u) => s = t

C19_StartStep ==
    \A p \in Procs :
        (pc[p] = "idle" /\ ctx'[p].op = "startSession") =>
            LET mine == {s \in sessions' : s.userId = ctx'[p].user} IN
                /\ Cardinality(mine) = 1
                /\ \A s \in mine :
                     /\ s.token = ctx'[p].token
                     /\ \A old \in sessions : old.token # s.token
                /\ Cardinality(sessions' \ sessions) = 1

C20_EndStep ==
    \A p \in Procs :
        (ctx[p].op = "endSession" /\ pc'[p] # pc[p]) =>
            /\ \A s \in sessions \ sessions' : s.token = ctx[p].token
            /\ pc'[p] = "done" =>
                 IF \E s \in sessions' : s.token = ctx[p].token
                 THEN /\ result'[p].code = "INTERNAL_SERVER_ERROR"
                      /\ result'[p].message # "No active session"
                 ELSE result'[p].code = "OK"

C20_VerifiedLogout == [][C20_EndStep]_vars

C20_Witness ==
    \E p, q \in Procs :
        /\ Failed(p, "endSession") /\ hist[p].fault = "delete"
        /\ Succeeded(q, "endSession") /\ result[q].message = "Logged out"
        /\ \E s \in sessions : s.token = ctx[p].token

\* the digit characters of a text, in their order
DigitsOf(str) == SelectSeq(str, LAMBDA c : c \in DigitChars)

\* the Luhn sum of a sequence of digit characters by position: the k-th digit
\* from the right counts doubled (less 9 when above 9) when k is even
LuhnSumOf(ds) ==
    LET val(c) == CHOOSE n \in 0..9 : DigitList[n + 1] = c
        term(k) == LET d == val(ds[Len(ds) + 1 - k]) IN
                       IF k % 2 = 1 THEN d
                       ELSE IF 2 * d > 9 THEN 2 * d - 9 ELSE 2 * d
        upto[k \in 0..Len(ds)] == IF k = 0 THEN 0 ELSE upto[k - 1] + term(k)
    IN upto[Len(ds)]

\* C21: validateCardNumber accepts an input exactly when its digits, all
\* other characters removed, are 16 and their Luhn sum is divisible by 10; it
\* gives a verdict on every input.
C21_LuhnOfSixteenDigits ==
    output # <<>> =>
        /\ output[1] \in BOOLEAN
        /\ output[1] = (/\ Len(DigitsOf(input)) = 16
                        /\ LuhnSumOf(DigitsOf(input)) % 10 = 0)

C21_Witness ==
    /\ output = <<TRUE>>
    /\ \E i \in DOMAIN input : input[i] = "-"
    /\ Len(DigitsOf(input)) = 16

\* the check digit of a 15-digit prefix: the digit that brings the Luhn sum
\* of the 16 digits to a multiple of 10
CheckDigitOf(prefix) ==
    (10 - (LuhnSumOf(Append(prefix, "0")) % 10)) % 10

\* C22: for every 15-digit prefix the number made by appending its check
\* digit is accepted by validateCardNumber, and the number made by appending
\* any other last digit is rejected.
C22_CheckDigitAccepted ==
    output # <<>> =>
        \A d \in 0..9 : output[d + 1] = (d = CheckDigitOf(input))

C22_Witness ==
    /\ output # <<>>
    /\ input = <<"4", "5", "3", "2", "0", "1", "5", "1", "1", "2", "8", "3",
                 "0", "3", "6">>
    /\ output[7] = TRUE
    /\ \A d \in 1..10 : d # 7 => output[d] = FALSE

\* the number written by the first k digits of a text, -1 when it has fewer
LeadingNumber(str, k) ==
    LET ds == DigitsOf(str)
        val(c) == CHOOSE n \in 0..9 : DigitList[n + 1] = c
        num[i \in 0..k] == IF i = 0 THEN 0 ELSE 10 * num[i - 1] + val(ds[i])
    IN IF Len(ds) < k THEN -1 ELSE num[k]

\* the network of a card number by the ranges of its leading digits
NetworkByRanges(str) ==
    LET n1 == LeadingNumber(str, 1)
        n2 == LeadingNumber(str, 2)
        n3 == LeadingNumber(str, 3)
        n4 == LeadingNumber(str, 4)
    IN IF n1 = 4 THEN "Visa"
       ELSE IF n2 \in 51..55 \/ n4 \in 2221..2720 THEN "Mastercard"
       ELSE IF n2 \in {34, 37} THEN "American Express"
       ELSE IF n4 = 6011 \/ n2 = 65 \/ n3 \in 644..649 \/ n3 = 622
            THEN "Discover"
       ELSE IF n3 \in 300..305 \/ n2 \in {36, 38} THEN "Diners Club"
       ELSE IF n4 \in 3528..3589 THEN "JCB"
       ELSE "null"

C24_CardChecked ==
    \A p \in Procs :
        (/\ ctx[p].op = "fundAccount"
         /\ ctx[p].source.type = "card"
         /\ \/ NetworkByRanges(ctx[p].source.accountNumber) = "null"
            \/ Len(DigitsOf(ctx[p].source.accountNumber)) # 16
            \/ LuhnSumOf(DigitsOf(ctx[p].source.accountNumber)) % 10 # 0)
        => /\ hist[p].mine = {}
           /\ pc[p] \notin {"f_fetch", "f_update"}
           /\ pc[p] = "done" => result[p].code # "OK"

\* C25: a funding whose source type is bank succeeds only with a routing
\* number that is present, has exactly 9 digits and is not all zeros; with any
\* other routing number it is rejected and inserts nothing.
C25_RoutingChecked ==
    \A p \in Procs :
        (/\ ctx[p].op = "fundAccount"
         /\ ctx[p].source.type = "bank"
         /\ \/ ~ctx[p].source.given
            \/ Len(ctx[p].source.routingNumber) # 9
            \/ \E i \in DOMAIN ctx[p].source.routingNumber :
                  ctx[p].source.routingNumber[i] \notin DigitChars
            \/ \A i \in DOMAIN ctx[p].source.routingNumber :
                  ctx[p].source.routingNumber[i] = "0")
        => /\ hist[p].mine = {}
           /\ pc[p] \notin {"f_fetch", "f_update"}
           /\ pc[p] = "done" => result[p].code # "OK"

\* a text of the form (0|[1-9]\d*)(\.\d{0,2})?: an integer part without
\* leading zeros and, possibly, a point with up to 2 decimal places
WellFormedAmount(str) ==
    \E i \in 1..Len(str), f \in 0..2 :
        /\ \A k \in 1..i : str[k] \in DigitChars
        /\ i > 1 => str[1] # "0"
        /\ \/ Len(str) = i
           \/ /\ Len(str) = i + 1 + f
              /\ str[i + 1] = "."
              /\ \A k \in (i + 2)..Len(str) : str[k] \in DigitChars

\* the numbers written before and after the point of a well-formed amount
PartsOf(str) ==
    LET point == CHOOSE k \in 1..(Len(str) + 1) :
                     /\ k <= Len(str) => str[k] = "."
                     /\ \A j \in 1..(k - 1) : str[j] # "."
        val(c) == CHOOSE n \in 0..9 : DigitList[n + 1] = c
        num[i \in 0..Len(str)] ==
            IF i = 0 \/ i = point THEN 0 ELSE 10 * num[i - 1] + val(str[i])
    IN [before |-> num[point - 1],
        after |-> IF point > Len(str) THEN 0 ELSE num[Len(str)]]

\* C26 as stated: the amount validator accepts a text exactly when it is
\* well formed (no leading zeros, at most 2 decimal places) and its value is
\* greater than 0.
C26_AcceptsPositiveWellFormed ==
    output # <<>> =>
        output[1] = (/\ WellFormedAmount(input)
                     /\ PartsOf(input).before > 0 \/ PartsOf(input).after > 0)

\* C26 as amended: the amount validator accepts a text exactly when it is
\* well formed, its value is greater than 0 and its value is at most 10000.
C26_AcceptsWellFormedInRange ==
    output # <<>> =>
        output[1] = (/\ WellFormedAmount(input)
                     /\ PartsOf(input).before > 0 \/ PartsOf(input).after > 0
                     /\ \/ PartsOf(input).before < 10000
                        \/ /\ PartsOf(input).before = 10000
                           /\ PartsOf(input).after = 0)

C26_Witness ==
    /\ output = <<TRUE>>
    /\ input = <<"1", "0", ".", "5", "0">>

\* C27: no step of createAccount, fundAccount or getTransactions removes or
\* changes a transaction row that exists, and none removes or changes an
\* account row that exists, other than the balance update of a fundAccount
\* call, which changes the balance of its own account only.
C27_Step ==
    /\ \A i \in DOMAIN transactions :
         i \in DOMAIN transactions' /\ transactions'[i] = transactions[i]
    /\ \A i \in DOMAIN accounts :
         /\ i \in DOMAIN accounts'
         /\ \/ accounts'[i] = accounts[i]
            \/ /\ \E p \in Procs :
                     /\ ctx[p].op = "fundAccount" /\ ctx[p].accountId = i
                     /\ pc[p] = "f_update" /\ pc'[p] = "done"
               /\ accounts'[i] =
                     [accounts[i] EXCEPT !.balance = accounts'[i].balance]

C27_OnlyFundingExtends == [][C27_Step]_vars

C27_Witness ==
    /\ Len(accounts) = 2
    /\ accounts[1].balance = 0
    /\ accounts[2].balance > 0
    /\ \E i \in DOMAIN transactions : transactions[i].accountId = 2

\* C28: the stored balance of an account is never negative and no step
\* lowers it, also when fundAccount calls on the same account interleave.
C28_BalanceStep ==
    \A i \in DOMAIN accounts :
        i \in DOMAIN accounts' => accounts'[i].balance >= accounts[i].balance

C28_BalanceNeverDecreases ==
    /\ [](\A i \in DOMAIN accounts : accounts[i].balance >= 0)
    /\ [][C28_BalanceStep]_vars

\* C29: a fundAccount call that failed after its transaction row was
\* inserted leaves no completed deposit of its own in the store whose amount
\* the balance of the account lacks.
C29_AllOrNothing ==
    \A p \in Procs :
        (/\ pc[p] = "done" /\ ctx[p].op = "fundAccount"
         /\ result[p].code # "OK")
        => \A i \in hist[p].mine :
              ~(/\ i \in DOMAIN transactions
                /\ transactions[i].status = "completed"
                /\ StoredBalance(ctx[p].accountId)
                      = hist[p].before)

\* C30: with a generator that eventually yields an unused candidate, every
\* createAccount call that entered the number loop eventually ends, with an
\* account or with an error; and a call leaves the loop only with a candidate
\* that no stored account has at that moment.
C30_LeavesWithUnused ==
    \A p \in Procs :
        (pc[p] = "c_gen" /\ pc'[p] # "c_gen") =>
            /\ pc'[p] = "c_insert"
            /\ \A i \in DOMAIN accounts :
                 accounts[i].accountNumber # accountNumber'[p]

C30_LoopTerminates ==
    /\ \A p \in Procs :
         (pc[p] = "c_gen") ~>
             (pc[p] = "done" /\ (result[p].code = "OK"
                                   \/ result[p].message # ""))
    /\ [][C30_LeavesWithUnused]_vars

C30_Witness ==
    \E p \in Procs :
        /\ Succeeded(p, "createAccount")
        /\ hist[p].retried
        /\ \E i \in DOMAIN accounts :
             accounts[i].accountNumber # result[p].account.accountNumber

====
